---- MODULE Spec2Model ----
(***************************************************************************)
(* A model of api/ask.js: the question-answering pipeline (normalize,      *)
(* extractMemberName, classifyIntent, handleAssessmentSpecificQuestions,   *)
(* the three answer extractors, generateAnswer) and the HTTP handler that  *)
(* drives it.                                                              *)
(*                                                                         *)
(* A JavaScript string is modelled as the sequence of its characters, each *)
(* character a one-character TLA+ string; S("abc") is <<"a", "b", "c">>.   *)
(* The alphabet is ASCII: toLowerCase maps A..Z to a..z and nothing else.  *)
(***************************************************************************)
EXTENDS Naturals, Integers, Sequences, FiniteSets, TLC

VARIABLES
    question,   \* core: the question string under test
    messages,   \* the message collection (a sequence of records)
    fn,         \* core: the function last called ("idle" before any call)
    ret,        \* core: what that call returned
    pc,         \* handler: position in the handler body
    req,        \* handler: the inbound request
    upstream,   \* handler: what the upstream fetch produced
    responses,  \* handler: the responses sent, in order
    steps       \* handler: the steps of the handler body run so far

vars == <<question, messages, fn, ret, pc, req, upstream, responses, steps>>

-----------------------------------------------------------------------------
(* Strings and JavaScript values *)

S(s) == [i \in 1..Len(s) |-> SubSeq(s, i, i)]

\* null, undefined and a thrown exception: values that are no string (their
\* single element is not a character).
Null == <<"null">>
Undefined == <<"undefined">>
Threw == <<"throw">>

Min(A) == CHOOSE x \in A : \A y \in A : x <= y
Max(A) == CHOOSE x \in A : \A y \in A : x >= y

UPPER == S("ABCDEFGHIJKLMNOPQRSTUVWXYZ")
LOWER == S("abcdefghijklmnopqrstuvwxyz")
UpperSet == {UPPER[i] : i \in 1..26}
LowerSet == {LOWER[i] : i \in 1..26}
DigitSet == {"0", "1", "2", "3", "4", "5", "6", "7", "8", "9"}
SpaceSet == {" ", "\t"}
LowerOf == [c \in UpperSet |-> LOWER[CHOOSE i \in 1..26 : UPPER[i] = c]]

IsUpper(c) == c \in UpperSet                       \* [A-Z]
IsLower(c) == c \in LowerSet                       \* [a-z]
IsDigit(c) == c \in DigitSet                       \* \d
IsSpace(c) == c \in SpaceSet                       \* \s
IsWord(c) == IsUpper(c) \/ IsLower(c) \/ IsDigit(c) \/ c = "_"   \* \w
IsLowerOrSpace(c) == IsLower(c) \/ IsSpace(c)      \* [a-z\s]
LowerSpaceQSet == LowerSet \cup SpaceSet \cup {"?"}   \* [a-z\s?]
LeadingPunctSet == SpaceSet \cup {":", ".", "-"}      \* [:\s.-]
IsLowerSpaceOrQ(c) == c \in LowerSpaceQSet

\* JavaScript truthiness of a string-or-absent value.
Truthy(v) == v # Null /\ v # Undefined /\ v # <<>>
\* a || b
Or(a, b) == IF Truthy(a) THEN a ELSE b

toLowerCase(text) ==
    [i \in 1..Len(text) |-> IF IsUpper(text[i]) THEN LowerOf[text[i]] ELSE text[i]]

trim(text) ==
    LET keep == {i \in 1..Len(text) : ~IsSpace(text[i])}
    IN  IF keep = {} THEN <<>> ELSE SubSeq(text, Min(keep), Max(keep))

\* sub occurs in s at position i (1-based).
At(s, i, sub) ==
    /\ i >= 1
    /\ i + Len(sub) - 1 <= Len(s)
    /\ SubSeq(s, i, i + Len(sub) - 1) = sub

includes(s, sub) == \E i \in 1..(Len(s) - Len(sub) + 1) : At(s, i, sub)

startsWith(s, pre) == At(s, 1, pre)

\* The last index of the run of characters of the class cls that starts at i
\* (i - 1 when s[i] is not of the class).
RunEnd(s, i, cls) ==
    LET stop == {j \in i..Len(s) : s[j] \notin cls}
    IN  IF stop = {} THEN Len(s) ELSE Min(stop) - 1

\* \s+ followed by the literal lit, matched from position p.
SpacesThen(s, p, lit) ==
    \E j \in 1..(Len(s) - p + 1) :
        /\ \A t \in p..(p + j - 1) : IsSpace(s[t])
        /\ At(s, p + j, lit)

\* text.split(/\s+/)
RECURSIVE splitSpaces(_)
splitSpaces(s) ==
    LET ws == {i \in 1..Len(s) : IsSpace(s[i])}
    IN  IF ws = {} THEN <<s>>
        ELSE LET i == Min(ws)
                 j == RunEnd(s, i, SpaceSet)
             IN  <<SubSeq(s, 1, i - 1)>> \o splitSpaces(SubSeq(s, j + 1, Len(s)))

-----------------------------------------------------------------------------
(* NLP helpers *)

normalize(text) == trim(toLowerCase(text))

\* Mutant: the pattern with the i flag, so that any two letters match.
extractMemberNameAnyCase(question_) ==
    LET IsLetter(c) == IsUpper(c) \/ IsLower(c)
        starts == {i \in 1..(Len(question_) - 1) :
                      IsLetter(question_[i]) /\ IsLetter(question_[i + 1])}
    IN  IF starts = {} THEN Null
        ELSE LET i == Min(starts)
             IN  SubSeq(question_, i, RunEnd(question_, i + 1, UpperSet \cup LowerSet))

\* question.match(/[A-Z][a-z]+/g)[0], or null
extractMemberName(question_) ==
    LET starts == {i \in 1..(Len(question_) - 1) :
                      IsUpper(question_[i]) /\ IsLower(question_[i + 1])}
    IN  IF starts = {} THEN Null
        ELSE LET i == Min(starts)
             IN  SubSeq(question_, i, RunEnd(question_, i + 1, LowerSet))

HOW_MANY == S("how many")
WHEN == S("when")
SP_WHEN_SP == S(" when ")
FAVORITE == S("favorite")
FAVOURITE == S("favourite")

\* Mutant: the favorite check moved in front of the other two.
classifyIntentFavoritesFirst(question_) ==
    LET q == normalize(question_)
    IN  IF includes(q, FAVORITE) \/ includes(q, FAVOURITE) THEN "FAVORITES"
        ELSE IF includes(q, HOW_MANY) THEN "COUNT"
        ELSE IF startsWith(q, WHEN) \/ includes(q, SP_WHEN_SP) THEN "WHEN"
        ELSE "UNKNOWN"

classifyIntent(question_) ==
    LET q == normalize(question_)
    IN  IF includes(q, HOW_MANY) THEN "COUNT"
        ELSE IF startsWith(q, WHEN) \/ includes(q, SP_WHEN_SP) THEN "WHEN"
        ELSE IF includes(q, FAVORITE) \/ includes(q, FAVOURITE) THEN "FAVORITES"
        ELSE "UNKNOWN"

-----------------------------------------------------------------------------
(* Assessment-specific handling *)

LAYLA == S("layla")
LONDON == S("london")
CARS == S("cars")
VIKRAM == S("vikram")
RESTAURANTS == S("restaurants")
AMIRA == S("amira")

LaylaAnswer ==
    S("Layla has not mentioned a trip to London in the available member messages.")
VikramAnswer ==
    S("There is no information in the member messages indicating how many cars Vikram Desai owns.")
\* The source writes Amira's with U+2019; the model writes the ASCII apostrophe.
AmiraAnswer ==
    S("The dataset does not include any details about Amira's favorite restaurants.")

\* Mutant: the question is tested as written, not lowercased.
handleAssessmentCaseSensitive(question_) ==
    LET q == question_
    IN  IF includes(q, LAYLA) /\ includes(q, LONDON) THEN LaylaAnswer
        ELSE IF includes(q, HOW_MANY) /\ includes(q, CARS) /\ includes(q, VIKRAM)
             THEN VikramAnswer
        ELSE IF /\ (includes(q, FAVORITE) \/ includes(q, FAVOURITE))
                /\ includes(q, RESTAURANTS)
                /\ includes(q, AMIRA)
             THEN AmiraAnswer
        ELSE Null

handleAssessmentSpecificQuestions(question_) ==
    LET q == toLowerCase(question_)
    IN  IF includes(q, LAYLA) /\ includes(q, LONDON) THEN LaylaAnswer
        ELSE IF includes(q, HOW_MANY) /\ includes(q, CARS) /\ includes(q, VIKRAM)
             THEN VikramAnswer
        ELSE IF /\ (includes(q, FAVORITE) \/ includes(q, FAVOURITE))
                /\ includes(q, RESTAURANTS)
                /\ includes(q, AMIRA)
             THEN AmiraAnswer
        ELSE Null

-----------------------------------------------------------------------------
(* Message records *)

\* A record always has the five fields; an absent field holds Undefined.
Msg(message, text, date, timestamp, created_at) ==
    [message |-> message, text |-> text, date |-> date,
     timestamp |-> timestamp, created_at |-> created_at]

\* String(msg.message || msg.text || '')
messageText(msg) == Or(Or(msg.message, msg.text), <<>>)

\* best.date || best.timestamp || best.created_at
messageDate(msg) == Or(Or(msg.date, msg.timestamp), msg.created_at)

-----------------------------------------------------------------------------
(* Domain logic: WHEN *)

StopWords == {S("is"), S("was"), S("do"), S("does"), S("did"),
              S("planning"), S("plan"), S("the")}

\* q.replace(/\bwhen\b/, ''): the first "when" standing between two word
\* boundaries is removed.
removeFirstWhen(q) ==
    LET hits == {i \in 1..(Len(q) - 3) :
                    /\ At(q, i, WHEN)
                    /\ (i = 1 \/ ~IsWord(q[i - 1]))
                    /\ (i + 3 = Len(q) \/ ~IsWord(q[i + 4]))}
    IN  IF hits = {} THEN q
        ELSE LET i == Min(hits)
             IN  SubSeq(q, 1, i - 1) \o SubSeq(q, i + 4, Len(q))

queryTermsOf(question_) ==
    SelectSeq(splitSpaces(removeFirstWhen(normalize(question_))),
              LAMBDA t : t \notin StopWords /\ Len(t) > 0)

\* The body of the for loop at message i: TRUE when the loop breaks there.
whenMatches(member, queryTerms, msg) ==
    LET text == normalize(messageText(msg))
    IN  /\ includes(text, toLowerCase(member))
        /\ \A k \in 1..Len(queryTerms) : includes(text, queryTerms[k])

\* Mutant: a matching message without a date is passed over.
RECURSIVE whenScanSkipUndated(_, _, _, _)
whenScanSkipUndated(member, queryTerms, msgs, i) ==
    IF i > Len(msgs) THEN 0
    ELSE IF whenMatches(member, queryTerms, msgs[i]) /\ Truthy(messageDate(msgs[i]))
         THEN i
    ELSE whenScanSkipUndated(member, queryTerms, msgs, i + 1)

\* The for loop from message i on: the index of best, 0 for null.
RECURSIVE whenScan(_, _, _, _)
whenScan(member, queryTerms, msgs, i) ==
    IF i > Len(msgs) THEN 0
    ELSE IF whenMatches(member, queryTerms, msgs[i]) THEN i
    ELSE whenScan(member, queryTerms, msgs, i + 1)

PLANNING_ON == S(" is planning that on ")
DOT == S(".")

answerWhenQuestion(question_, msgs) ==
    LET member == extractMemberName(question_)
    IN  IF ~Truthy(member) THEN Null
        ELSE LET best == whenScan(member, queryTermsOf(question_), msgs, 1)
             IN  IF best = 0 THEN Null
                 ELSE LET date == messageDate(msgs[best])
                      IN  IF ~Truthy(date) THEN Null
                          ELSE member \o PLANNING_ON \o date \o DOT

-----------------------------------------------------------------------------
(* Domain logic: COUNT *)

DOES == S("does")
HAS == S(" has ")
SPACE == S(" ")

\* The ends of the lazy capture ([a-z\s]+?) that starts at c and is followed
\* by \s+does.
captureEnds(q, c) ==
    {e \in c..Len(q) :
        /\ \A t \in c..e : IsLowerOrSpace(q[t])
        /\ SpacesThen(q, e + 1, DOES)}

\* The lengths of the \s+ after "how many" at i that let the rest match.
spaceLens(q, i) ==
    {k \in 1..(Len(q) - i - 7) :
        /\ \A t \in (i + 8)..(i + 7 + k) : IsSpace(q[t])
        /\ captureEnds(q, i + 8 + k) # {}}

\* q.match(/how many\s+([a-z\s]+?)\s+does/): m[1], or null. The leftmost
\* start wins, then the longest \s+ (greedy), then the shortest capture (lazy).
howManyMatch(q) ==
    LET starts == {i \in 1..Len(q) : At(q, i, HOW_MANY) /\ spaceLens(q, i) # {}}
    IN  IF starts = {} THEN Null
        ELSE LET i == Min(starts)
                 c == i + 8 + Max(spaceLens(q, i))
             IN  SubSeq(q, c, Min(captureEnds(q, c)))

\* new RegExp(`(\\d+)\\s+${obj}`): obj is compiled as regular-expression
\* source. Letters and white space stand for themselves; any other character
\* is taken to make the constructor throw.
regExpCompiles(obj) == \A k \in 1..Len(obj) : IsLowerOrSpace(obj[k])

\* text.match(pattern): m2[1], or null. \d+ takes the whole run of digits.
digitsMatch(text, obj) ==
    LET starts == {i \in 1..Len(text) :
                      /\ IsDigit(text[i])
                      /\ SpacesThen(text, RunEnd(text, i, DigitSet) + 1, obj)}
    IN  IF starts = {} THEN Null
        ELSE LET i == Min(starts)
             IN  SubSeq(text, i, RunEnd(text, i, DigitSet))

\* The for loop from message i on.
RECURSIVE countScan(_, _, _, _)
countScan(member, obj, msgs, i) ==
    IF i > Len(msgs) THEN Null
    ELSE LET text == normalize(messageText(msgs[i]))
         IN  IF ~includes(text, toLowerCase(member))
             THEN countScan(member, obj, msgs, i + 1)
             ELSE LET count == digitsMatch(text, obj)
                  IN  IF count # Null
                      THEN member \o HAS \o count \o SPACE \o obj \o DOT
                      ELSE countScan(member, obj, msgs, i + 1)

answerCountQuestion(question_, msgs) ==
    LET member == extractMemberName(question_)
    IN  IF ~Truthy(member) THEN Null
        ELSE LET m1 == howManyMatch(normalize(question_))
             IN  IF m1 = Null THEN Null
                 ELSE LET obj == trim(m1)
                      IN  IF ~regExpCompiles(obj) THEN Threw
                          ELSE countScan(member, obj, msgs, 1)

-----------------------------------------------------------------------------
(* Domain logic: FAVORITES *)

QMARK == S("?")
S_FAVORITE == S("'s favorite ")
ARE == S(" are ")

\* q.match(/favorite\s+([a-z\s?]+)/): m[1], or null. At a start i the \s+ is
\* as long as leaves a first character for the capture, which then takes the
\* whole run of [a-z\s?].
favoriteLens(q, i) ==
    {k \in 1..(RunEnd(q, i + 8, SpaceSet) - i - 7) :
        i + 8 + k <= Len(q) /\ IsLowerSpaceOrQ(q[i + 8 + k])}

favoriteMatch(q) ==
    LET starts == {i \in 1..Len(q) : At(q, i, FAVORITE) /\ favoriteLens(q, i) # {}}
    IN  IF starts = {} THEN Null
        ELSE LET i == Min(starts)
                 c == i + 8 + Max(favoriteLens(q, i))
             IN  SubSeq(q, c, RunEnd(q, c, LowerSpaceQSet))

\* s.replace('?', ''): the first "?" is removed.
removeFirstQ(s) ==
    LET hits == {i \in 1..Len(s) : s[i] = "?"}
    IN  IF hits = {} THEN s
        ELSE SubSeq(s, 1, Min(hits) - 1) \o SubSeq(s, Min(hits) + 1, Len(s))

\* category.split(' ')[0]
firstWord(category) ==
    LET sp == {i \in 1..Len(category) : category[i] = " "}
    IN  IF sp = {} THEN category ELSE SubSeq(category, 1, Min(sp) - 1)

\* parts[parts.length - 1] of text.split(/favorite/i): the text after the
\* last "favorite" in any case, the whole text when there is none.
lastFavoritePart(text) ==
    LET lower == toLowerCase(text)
        hits == {i \in 1..Len(text) : At(lower, i, FAVORITE)}
    IN  IF hits = {} THEN text ELSE SubSeq(text, Max(hits) + 8, Len(text))

\* s.replace(/^[:\s.-]+/, '').trim()
stripLeading(s) == trim(SubSeq(s, RunEnd(s, 1, LeadingPunctSet) + 1, Len(s)))

\* Mutant: the loop returns null at the first matching message whose
\* remainder is empty.
RECURSIVE favoritesScanStopAtFirst(_, _, _, _)
favoritesScanStopAtFirst(member, category, msgs, i) ==
    IF i > Len(msgs) THEN Null
    ELSE LET text == messageText(msgs[i])
             lower == normalize(text)
         IN  IF \/ ~includes(lower, toLowerCase(member))
                \/ ~includes(lower, FAVORITE)
                \/ ~includes(lower, firstWord(category))
             THEN favoritesScanStopAtFirst(member, category, msgs, i + 1)
             ELSE LET favPart == stripLeading(lastFavoritePart(text))
                  IN  IF Truthy(favPart)
                      THEN member \o S_FAVORITE \o category \o ARE \o favPart \o DOT
                      ELSE Null

\* The for loop from message i on.
RECURSIVE favoritesScan(_, _, _, _)
favoritesScan(member, category, msgs, i) ==
    IF i > Len(msgs) THEN Null
    ELSE LET text == messageText(msgs[i])
             lower == normalize(text)
         IN  IF \/ ~includes(lower, toLowerCase(member))
                \/ ~includes(lower, FAVORITE)
                \/ ~includes(lower, firstWord(category))
             THEN favoritesScan(member, category, msgs, i + 1)
             ELSE LET favPart == stripLeading(lastFavoritePart(text))
                  IN  IF Truthy(favPart)
                      THEN member \o S_FAVORITE \o category \o ARE \o favPart \o DOT
                      ELSE favoritesScan(member, category, msgs, i + 1)

answerFavoritesQuestion(question_, msgs) ==
    LET member == extractMemberName(question_)
    IN  IF ~Truthy(member) THEN Null
        ELSE LET m1 == favoriteMatch(normalize(question_))
             IN  IF m1 = Null THEN Null
                 ELSE favoritesScan(member, trim(removeFirstQ(m1)), msgs, 1)

-----------------------------------------------------------------------------
(* Orchestrator *)

\* The source writes couldn't with U+2019; the model writes the ASCII apostrophe.
Fallback == S("Sorry, I couldn't infer an answer from the member data.")

\* Mutant: the extractor's result is returned as it is, null included.
generateAnswerNoFallback(question_, msgs) ==
    LET special == handleAssessmentSpecificQuestions(question_)
    IN  IF Truthy(special) THEN special
        ELSE LET intent == classifyIntent(question_)
             IN  IF intent = "WHEN" THEN answerWhenQuestion(question_, msgs)
                 ELSE IF intent = "COUNT" THEN answerCountQuestion(question_, msgs)
                 ELSE IF intent = "FAVORITES"
                      THEN answerFavoritesQuestion(question_, msgs)
                 ELSE Null

generateAnswer(question_, msgs) ==
    LET special == handleAssessmentSpecificQuestions(question_)
    IN  IF Truthy(special) THEN special
        ELSE LET intent == classifyIntent(question_)
                 ans == IF intent = "WHEN" THEN answerWhenQuestion(question_, msgs)
                        ELSE IF intent = "COUNT" THEN answerCountQuestion(question_, msgs)
                        ELSE IF intent = "FAVORITES"
                             THEN answerFavoritesQuestion(question_, msgs)
                        ELSE Null
             IN  IF ans = Threw THEN Threw
                 ELSE IF ~Truthy(ans) THEN Fallback
                 ELSE ans

-----------------------------------------------------------------------------
(* Inputs *)

\* Questions are built from at most MaxWords of these fragments, kept in this
\* order and joined by single spaces.
MaxWords == 3
\* Message collections hold at most MaxMsgs records of MessagePool, no record
\* twice.
MaxMsgs == 2

Fragments ==
    <<S("Layla"), S("when"), S("how many"), S("favourite"), S("favorite"),
      S("cars"), S("RESTAURANTS"), S("Vikram"), S("amira"), S("LONDON")>>

RECURSIVE joinFragments(_)
joinFragments(A) ==
    IF A = {} THEN <<>>
    ELSE LET i == Min(A)
         IN  IF A = {i} THEN Fragments[i]
             ELSE Fragments[i] \o SPACE \o joinFragments(A \ {i})

FragmentQuestions ==
    {joinFragments(A) : A \in {B \in SUBSET DOMAIN Fragments :
                                  Cardinality(B) >= 1 /\ Cardinality(B) <= MaxWords}}

QMayaCap == S("When is Maya planning her trip to Paris?")
QMaya == S("when is Maya planning her trip to Paris")
QSamCap == S("How many dogs does Sam have?")
QSam == S("how many dogs does Sam have?")
QPriyaCap == S("What is Priya's favorite color?")
QPriya == S("what is Priya's favorite color?")
QSamCars == S("how many favorite cars does Sam have")
QLayla == S("When is Layla planning her trip to London?")
QVikram == S("How many cars does Vikram Desai have?")
QAmira == S("What are Amira's favorite restaurants?")
QVikramLayla == S("How many cars does Vikram keep at Layla's house in London?")
QTell == S("Tell me about Sam")
QMayaLower == S("when is maya planning her trip to paris")
QSamLower == S("how many dogs does sam have?")
QPriyaLower == S("what is priya's favorite color?")
QLaylaLower == S("when is layla planning her trip to london?")

ExampleQuestions ==
    {QMayaCap, QMaya, QSamCap, QSam, QPriyaCap, QPriya, QSamCars, QLayla,
     QVikram, QAmira, QVikramLayla, QTell, QMayaLower, QSamLower, QPriyaLower,
     QLaylaLower}

Questions == ExampleQuestions \cup FragmentQuestions

MMayaDated ==
    Msg(S("Maya is planning her trip to Paris"), Undefined, S("2024-05-01"),
        Undefined, Undefined)
MMayaUndated ==
    Msg(S("Maya is planning her trip to Paris"), Undefined, Undefined,
        Undefined, Undefined)
MMayaText ==
    Msg(<<>>, S("MAYA booked her trip to Paris"), <<>>, S("2024-06-02"),
        S("2024-06-03"))
MSam == Msg(S("Sam has 3 dogs at home"), Undefined, Undefined, Undefined, Undefined)
MPriya ==
    Msg(S("Priya says her favorite color: blue and green"), Undefined, Undefined,
        Undefined, Undefined)
MPriyaEmpty ==
    Msg(Undefined, S("Priya has a color that is her Favorite: "), Undefined,
        Undefined, S("2024-07-04"))

MessagePool ==
    {MMayaDated, MMayaUndated, MMayaText, MSam, MPriya, MPriyaEmpty}

MessageCollections ==
    UNION {{c \in [1..n -> MessagePool] :
               \A i \in 1..n : \A j \in 1..n : i # j => c[i] # c[j]} :
           n \in 0..MaxMsgs}

-----------------------------------------------------------------------------
(* The pipeline's functions, each called on its own *)

CallExtractMemberName ==
    /\ fn = "idle" /\ pc = "core"
    /\ fn' = "extractMemberName"
    /\ ret' = extractMemberName(question)
    /\ UNCHANGED <<question, messages, pc, req, upstream, responses, steps>>

CallClassifyIntent ==
    /\ fn = "idle" /\ pc = "core"
    /\ fn' = "classifyIntent"
    /\ ret' = classifyIntent(question)
    /\ UNCHANGED <<question, messages, pc, req, upstream, responses, steps>>

CallHandleAssessmentSpecificQuestions ==
    /\ fn = "idle" /\ pc = "core"
    /\ fn' = "handleAssessmentSpecificQuestions"
    /\ ret' = handleAssessmentSpecificQuestions(question)
    /\ UNCHANGED <<question, messages, pc, req, upstream, responses, steps>>

CallAnswerWhenQuestion ==
    /\ fn = "idle" /\ pc = "core"
    /\ \E msgs \in MessageCollections :
        /\ messages' = msgs
        /\ ret' = answerWhenQuestion(question, msgs)
    /\ fn' = "answerWhenQuestion"
    /\ UNCHANGED <<question, pc, req, upstream, responses, steps>>

CallAnswerCountQuestion ==
    /\ fn = "idle" /\ pc = "core"
    /\ \E msgs \in MessageCollections :
        /\ messages' = msgs
        /\ ret' = answerCountQuestion(question, msgs)
    /\ fn' = "answerCountQuestion"
    /\ UNCHANGED <<question, pc, req, upstream, responses, steps>>

CallAnswerFavoritesQuestion ==
    /\ fn = "idle" /\ pc = "core"
    /\ \E msgs \in MessageCollections :
        /\ messages' = msgs
        /\ ret' = answerFavoritesQuestion(question, msgs)
    /\ fn' = "answerFavoritesQuestion"
    /\ UNCHANGED <<question, pc, req, upstream, responses, steps>>

CallGenerateAnswer ==
    /\ fn = "idle" /\ pc = "core"
    /\ \E msgs \in MessageCollections :
        /\ messages' = msgs
        /\ ret' = generateAnswer(question, msgs)
    /\ fn' = "generateAnswer"
    /\ UNCHANGED <<question, pc, req, upstream, responses, steps>>

CoreInit ==
    /\ question \in Questions
    /\ messages = <<>>
    /\ fn = "idle"
    /\ ret = Null
    /\ pc = "core"
    /\ req = Null
    /\ upstream = Null
    /\ responses = <<>>
    /\ steps = <<>>

CoreNext ==
    \/ CallExtractMemberName
    \/ CallClassifyIntent
    \/ CallHandleAssessmentSpecificQuestions
    \/ CallAnswerWhenQuestion
    \/ CallAnswerCountQuestion
    \/ CallAnswerFavoritesQuestion
    \/ CallGenerateAnswer

CoreSpec == CoreInit /\ [][CoreNext]_vars

-----------------------------------------------------------------------------
(* Vercel handler *)

\* Question values that are no string: an array of three strings (a query
\* string that repeats the parameter three times, or a JSON body) and a
\* non-zero number (a JSON body's {"question": 12345}).
NumberQ == <<"number">>
ArrayQ == <<"array">>

IsString(v) == v \notin {Null, Undefined, Threw, NumberQ, ArrayQ}

\* v.length is defined for strings and arrays only.
hasLength(v) == IsString(v) \/ v = ArrayQ
lengthOf(v) == IF v = ArrayQ THEN 3 ELSE Len(v)

\* !question || question.length < 3; undefined < 3 is false.
invalidQuestion(v) == ~Truthy(v) \/ (hasLength(v) /\ lengthOf(v) < 3)

\* What req.query.question can hold, and what a JSON body's question can.
QueryValues == {Undefined, <<>>, S("hi"), S("hey"), ArrayQ, QSam, QLayla, QTell}
BodyValues == QueryValues \cup {NumberQ}

\* body: "object" (already parsed), "json" (a string JSON.parse accepts),
\* "invalid" (a string JSON.parse rejects), "absent" (no body).
Requests ==
    [method : {"GET"}, question : QueryValues, body : {"absent"}]
    \cup [method : {"POST"}, question : BodyValues, body : {"object", "json"}]
    \cup [method : {"POST"}, question : {Undefined}, body : {"invalid", "absent"}]
    \cup [method : {"PUT", "DELETE"}, question : {Undefined, QSam}, body : {"absent"}]

\* What upstream.json() gives: an array (kind "array", its items in the
\* messages field), an object with a messages array ("object"), an object
\* without one ("empty object"), null, or a body that is no JSON ("invalid").
UpstreamData ==
    [kind : {"array", "object"}, messages : MessageCollections]
    \cup [kind : {"empty object", "null", "invalid"}, messages : {<<>>}]

respond(status, answer) == responses' = Append(responses, [status |-> status, answer |-> answer])

\* req.method dispatch, lines 156-164
Dispatch ==
    /\ pc = "start"
    /\ steps' = Append(steps, "method")
    /\ IF req.method = "GET"
       THEN /\ question' = req.question
            /\ pc' = "validate"
            /\ UNCHANGED responses
       ELSE IF req.method = "POST"
       THEN IF req.body = "invalid"
            THEN /\ respond(500, S("Unexpected server error."))
                 /\ pc' = "done"
                 /\ UNCHANGED question
            ELSE /\ question' = req.question
                 /\ pc' = "validate"
                 /\ UNCHANGED responses
       ELSE /\ respond(405, S("Method Not Allowed"))
            /\ pc' = "done"
            /\ UNCHANGED question
    /\ UNCHANGED <<messages, fn, ret, req, upstream>>

\* lines 166-169
Validate ==
    /\ pc = "validate"
    /\ steps' = Append(steps, "validate")
    /\ IF invalidQuestion(question)
       THEN /\ respond(400, S("Please provide a valid question."))
            /\ pc' = "done"
       ELSE /\ pc' = "fetch"
            /\ UNCHANGED responses
    /\ UNCHANGED <<question, messages, fn, ret, req, upstream>>

\* await fetch(MESSAGES_API_URL), lines 171-175: the fetch rejects, or
\* resolves to a response that is ok or not.
Fetch ==
    /\ pc = "fetch"
    /\ steps' = Append(steps, "fetch")
    /\ \E outcome \in {"rejected", "not ok", "ok"} :
        /\ upstream' = [fetch |-> outcome, data |-> Undefined]
        /\ IF outcome = "rejected"
           THEN /\ respond(500, S("Unexpected server error."))
                /\ pc' = "done"
           ELSE IF outcome = "not ok"
           THEN /\ respond(502, S("Upstream messages API failed."))
                /\ pc' = "done"
           ELSE /\ pc' = "json"
                /\ UNCHANGED responses
    /\ UNCHANGED <<question, messages, fn, ret, req>>

\* await upstream.json() and the choice of messages, lines 177-178
ReadJson ==
    /\ pc = "json"
    /\ steps' = Append(steps, "json")
    /\ \E data \in UpstreamData :
        /\ upstream' = [upstream EXCEPT !.data = data]
        /\ IF data.kind \in {"invalid", "null"}
           THEN /\ respond(500, S("Unexpected server error."))
                /\ pc' = "done"
                /\ UNCHANGED messages
           ELSE /\ messages' = IF data.kind = "empty object" THEN <<>> ELSE data.messages
                /\ pc' = "generate"
                /\ UNCHANGED responses
    /\ UNCHANGED <<question, fn, ret, req>>

\* generateAnswer(question, messages) as the handler calls it: a question
\* that is no string throws at question.toLowerCase (line 31).
callGenerateAnswer(q, msgs) ==
    IF IsString(q) THEN generateAnswer(q, msgs) ELSE Threw

\* lines 180-184
Generate ==
    /\ pc = "generate"
    /\ steps' = Append(steps, "generateAnswer")
    /\ fn' = "generateAnswer"
    /\ ret' = callGenerateAnswer(question, messages)
    /\ IF ret' = Threw
       THEN respond(500, S("Unexpected server error."))
       ELSE respond(200, ret')
    /\ pc' = "done"
    /\ UNCHANGED <<question, messages, req, upstream>>

Init ==
    /\ req \in Requests
    /\ pc = "start"
    /\ question = Undefined
    /\ messages = <<>>
    /\ fn = "idle"
    /\ ret = Null
    /\ upstream = Null
    /\ responses = <<>>
    /\ steps = <<>>

Next ==
    \/ Dispatch
    \/ Validate
    \/ Fetch
    \/ ReadJson
    \/ Generate

Spec == Init /\ [][Next]_vars

-----------------------------------------------------------------------------
(* Properties *)

Range(f) == {f[i] : i \in DOMAIN f}

\* v is a string: a sequence of characters.
IsCharString(v) ==
    /\ v \notin {Null, Undefined, Threw}
    /\ \A i \in 1..Len(v) : Len(v[i]) = 1

\* The three entries of the special-case table, as the question satisfies them.
SatisfiesLayla(q) ==
    includes(toLowerCase(q), LAYLA) /\ includes(toLowerCase(q), LONDON)
SatisfiesVikram(q) ==
    /\ includes(toLowerCase(q), HOW_MANY)
    /\ includes(toLowerCase(q), CARS)
    /\ includes(toLowerCase(q), VIKRAM)
SatisfiesAmira(q) ==
    /\ includes(toLowerCase(q), FAVORITE) \/ includes(toLowerCase(q), FAVOURITE)
    /\ includes(toLowerCase(q), RESTAURANTS)
    /\ includes(toLowerCase(q), AMIRA)

\* The sentence of the first entry the question satisfies, or null.
FirstEntrySentence(q) ==
    IF SatisfiesLayla(q) THEN LaylaAnswer
    ELSE IF SatisfiesVikram(q) THEN VikramAnswer
    ELSE IF SatisfiesAmira(q) THEN AmiraAnswer
    ELSE Null

\* C1, as claimed: a question that satisfies a special-case entry is answered
\* with that entry's fixed sentence, whatever the messages are.
C1_EveryEntrySentence ==
    fn = "generateAnswer" =>
        /\ SatisfiesLayla(question) => ret = LaylaAnswer
        /\ SatisfiesVikram(question) => ret = VikramAnswer
        /\ SatisfiesAmira(question) => ret = AmiraAnswer

\* C1, amended: a question that satisfies a special-case entry is answered
\* with the fixed sentence of the first entry it satisfies (Layla/London, then
\* Vikram/cars, then Amira/restaurants), whatever the messages are.
C1_FirstEntrySentence ==
    (fn = "generateAnswer" /\ FirstEntrySentence(question) # Null) =>
        ret = FirstEntrySentence(question)

\* C1's case: a Vikram/cars question in capitals and small letters, asked
\* over a collection that is not empty, answered with the Vikram sentence.
C1_Witness ==
    /\ fn = "generateAnswer"
    /\ SatisfiesVikram(question)
    /\ ~SatisfiesLayla(question)
    /\ question # toLowerCase(question)
    /\ messages # <<>>
    /\ ret = VikramAnswer

\* The extractor generateAnswer dispatches to, applied.
extractorResult(q, msgs) ==
    LET intent == classifyIntent(q)
    IN  IF intent = "WHEN" THEN answerWhenQuestion(q, msgs)
        ELSE IF intent = "COUNT" THEN answerCountQuestion(q, msgs)
        ELSE IF intent = "FAVORITES" THEN answerFavoritesQuestion(q, msgs)
        ELSE Null

\* C2: generateAnswer, called with a string and a collection of records,
\* does not throw and returns a string: a special-case sentence, the string
\* the extractor of the classified intent derived, or the fallback sentence.
C2_AlwaysAString ==
    fn = "generateAnswer" =>
        /\ ret # Threw
        /\ IsCharString(ret)
        /\ \/ ret \in {LaylaAnswer, VikramAnswer, AmiraAnswer}
           \/ ret = Fallback
           \/ ret = extractorResult(question, messages)

\* C2's case: an answer that an extractor derived from a record whose date
\* fields are absent.
C2_Witness ==
    /\ fn = "generateAnswer"
    /\ question = QSam
    /\ messages = <<MSam>>
    /\ ret = S("Sam has 3 dogs.")

\* C3: classifyIntent tests the normalized question in priority order: "how
\* many" gives COUNT; else an initial "when" or " when " gives WHEN; else
\* "favorite" or "favourite" gives FAVORITES; else UNKNOWN. "how many
\* favorite cars does Sam have" is COUNT.
C3_ClassifierPriority ==
    fn = "classifyIntent" =>
        LET q == normalize(question)
            howMany == includes(q, HOW_MANY)
            when == startsWith(q, WHEN) \/ includes(q, SP_WHEN_SP)
            favorite == includes(q, FAVORITE) \/ includes(q, FAVOURITE)
        IN  /\ howMany => ret = "COUNT"
            /\ (~howMany /\ when) => ret = "WHEN"
            /\ (~howMany /\ ~when /\ favorite) => ret = "FAVORITES"
            /\ (~howMany /\ ~when /\ ~favorite) => ret = "UNKNOWN"
            /\ question = QSamCars => ret = "COUNT"

\* C3's case: the question with both "how many" and "favorite".
C3_Witness ==
    /\ fn = "classifyIntent"
    /\ question = QSamCars
    /\ includes(normalize(question), FAVORITE)
    /\ ret = "COUNT"

\* C4, as claimed: "When is Maya planning her trip to Paris?" over the dated
\* Maya message is answered "Maya is planning that on 2024-05-01."; over the
\* same message without its date, with the fallback sentence.
C4_MayaExample ==
    (fn = "generateAnswer" /\ question = QMayaCap) =>
        /\ messages = <<MMayaDated>> => ret = S("Maya is planning that on 2024-05-01.")
        /\ messages = <<MMayaUndated>> => ret = Fallback

\* C5, as claimed: "How many dogs does Sam have?" over "Sam has 3 dogs at
\* home" is answered "Sam has 3 dogs."; over messages without digits before
\* "dogs", with the fallback sentence.
C5_SamExample ==
    (fn = "generateAnswer" /\ question = QSamCap) =>
        /\ messages = <<MSam>> => ret = S("Sam has 3 dogs.")
        /\ (\A i \in 1..Len(messages) :
                digitsMatch(normalize(messageText(messages[i])), S("dogs")) = Null)
           => ret = Fallback

\* C6, as claimed: "What is Priya's favorite color?" over "Priya says her
\* favorite color: blue and green" is answered "Priya's favorite color are
\* blue and green."
C6_PriyaExample ==
    (fn = "generateAnswer" /\ question = QPriyaCap /\ messages = <<MPriya>>) =>
        ret = S("Priya's favorite color are blue and green.")

\* No upper-case letter of q is followed by a lower-case letter.
NoCapitalizedWord(q) ==
    ~\E i \in 1..(Len(q) - 1) : IsUpper(q[i]) /\ IsLower(q[i + 1])

Extractors == {"answerCountQuestion", "answerWhenQuestion", "answerFavoritesQuestion"}

\* C7, as claimed: for a question without a capitalized word,
\* extractMemberName and the three extractors return null and generateAnswer
\* returns the fallback sentence.
C7_NoCapitalAlwaysFallback ==
    NoCapitalizedWord(question) =>
        /\ fn = "extractMemberName" => ret = Null
        /\ fn \in Extractors => ret = Null
        /\ fn = "generateAnswer" => ret = Fallback

\* C7, amended: for a question without a capitalized word, extractMemberName
\* and the three extractors return null, and generateAnswer returns the
\* fallback sentence unless the question satisfies a special-case entry, when
\* it returns the sentence of the first entry satisfied.
C7_NoCapitalFallbackOrSpecial ==
    NoCapitalizedWord(question) =>
        /\ fn = "extractMemberName" => ret = Null
        /\ fn \in Extractors => ret = Null
        /\ fn = "generateAnswer" =>
              ret = IF FirstEntrySentence(question) # Null
                    THEN FirstEntrySentence(question)
                    ELSE Fallback

\* C7's case: the Sam question in small letters over the message that
\* answers it when Sam is capitalized.
C7_Witness ==
    /\ fn = "generateAnswer"
    /\ question = QSamLower
    /\ NoCapitalizedWord(question)
    /\ messages = <<MSam>>
    /\ answerCountQuestion(QSam, messages) # Null
    /\ ret = Fallback

\* The category phrase answerFavoritesQuestion takes from the question.
categoryOf(q) == trim(removeFirstQ(favoriteMatch(normalize(q))))

\* The message mentions the member, contains "favorite" and contains the
\* first word of the category phrase.
favoritesMatches(member, category, msg) ==
    LET lower == normalize(messageText(msg))
    IN  /\ includes(lower, toLowerCase(member))
        /\ includes(lower, FAVORITE)
        /\ includes(lower, firstWord(category))

\* The remainder extracted from the message.
remainderOf(msg) == stripLeading(lastFavoritePart(messageText(msg)))

\* answerFavoritesQuestion got past its two early returns.
favoritesScans(q) ==
    extractMemberName(q) # Null /\ favoriteMatch(normalize(q)) # Null

firstDateField(msg) ==
    IF Truthy(msg.date) THEN msg.date
    ELSE IF Truthy(msg.timestamp) THEN msg.timestamp
    ELSE IF Truthy(msg.created_at) THEN msg.created_at
    ELSE Null

\* C10: answerWhenQuestion commits to the first message whose text mentions
\* the member and contains every query term. It returns null when that
\* message has no date-like field, whatever follows it, and otherwise answers
\* with that message's date, timestamp or created_at, the first that is there.
C10_CommitsToFirstMatch ==
    (fn = "answerWhenQuestion" /\ extractMemberName(question) # Null) =>
        LET member == extractMemberName(question)
            matching == {i \in 1..Len(messages) :
                            whenMatches(member, queryTermsOf(question), messages[i])}
        IN  IF matching = {} THEN ret = Null
            ELSE LET date == firstDateField(messages[Min(matching)])
                 IN  IF date = Null THEN ret = Null
                     ELSE ret = member \o PLANNING_ON \o date \o DOT

\* C10's case: the first matching message has no date, a later one has, and
\* the call returns null.
C10_Witness ==
    /\ fn = "answerWhenQuestion"
    /\ question = QMaya
    /\ messages = <<MMayaUndated, MMayaDated>>
    /\ whenMatches(S("Maya"), queryTermsOf(question), MMayaUndated)
    /\ whenMatches(S("Maya"), queryTermsOf(question), MMayaDated)
    /\ ret = Null

\* The response sent, when there is one.
statusSent == responses[1].status

\* C8, as claimed: generateAnswer is called only after the method was found
\* to be GET or POST, the question present with a length of at least 3 and
\* the upstream response ok, in that order; a request that fails a check is
\* answered 405, 400 or 502 with no later step run; a request gets one
\* response, and 200 only when generateAnswer returned.
C8_ValidatedBeforeCore ==
    /\ Len(responses) <= 1
    /\ pc = "done" => Len(responses) = 1
    /\ "generateAnswer" \in Range(steps) =>
          /\ steps = <<"method", "validate", "fetch", "json", "generateAnswer">>
          /\ req.method \in {"GET", "POST"}
          /\ Truthy(question) /\ hasLength(question) /\ lengthOf(question) >= 3
          /\ upstream.fetch = "ok"
    /\ (responses # <<>> /\ statusSent = 405) =>
          steps = <<"method">> /\ req.method \notin {"GET", "POST"}
    /\ (responses # <<>> /\ statusSent = 400) =>
          steps = <<"method", "validate">> /\ invalidQuestion(question)
    /\ (responses # <<>> /\ statusSent = 502) =>
          steps = <<"method", "validate", "fetch">> /\ upstream.fetch = "not ok"
    /\ (responses # <<>> /\ statusSent = 200) =>
          fn = "generateAnswer" /\ IsCharString(ret) /\ responses[1].answer = ret

====
